---- MODULE Spec2Model ----
(***************************************************************************)
(* Model of src/src/lib.rs: HashMap<K, V>, a separate-chaining hash table  *)
(* with a Vec of buckets (each a Vec of (key, value) pairs) and an item    *)
(* counter.  Keys are 1..NKeys, values are 1..NVals, Option::None is the   *)
(* number None.  DefaultHasher is an arbitrary but fixed function from     *)
(* keys to hash values, chosen in Init and never changed.                  *)
(***************************************************************************)
EXTENDS Integers, Sequences, FiniteSets, TLC

\* ---- bounds of the model ----
NKeys == 3
NVals == 2
HashRange == 3
MaxInserts == 3

Keys == 1..NKeys
Vals == 1..NVals
None == 0        \* Option::None
Unwound == -1    \* no return value: the call panicked

VARIABLES
  hash,          \* DefaultHasher: key -> u64 (fixed for the whole run)
  buckets,       \* self.buckets : Vec<Vec<(K, V)>>
  items,         \* self.items : usize
  panicked,      \* TRUE once an operation has panicked (thread unwound)
  lastOp,        \* the last call: [op, key, found, ret]
  assigned,      \* history: key -> value of the last insert since the last remove, or None
  everInserted,  \* history: the keys that insert was ever called with
  nInsertNew,    \* history: number of inserts whose key was absent when called
  nRemoveOk      \* history: number of removes whose key was present when called

vars == <<hash, buckets, items, panicked, lastOp, assigned, everInserted,
          nInsertNew, nRemoveOk>>

\* ---- pure helpers, one per function of the source ----

\* self.buckets.len()
Capacity == Len(buckets)

\* emptiness judged by the bucket vector instead of the item counter
emptyNoBuckets == Len(buckets) = 0

\* fn empty(&self) -> bool { self.items == 0 }
empty == items = 0

\* hasher.finish() % len, for a non-zero len
BucketOf(key, len) == (hash[key] % len) + 1

\* fn get_bucket_idx: the remainder panics when buckets.len() is 0
get_bucket_idx_panics == Capacity = 0

get_bucket_idx(key) == BucketOf(key, Capacity)

\* bucket.iter().position(|(k, _)| *k == key): first index holding key, 0 if none
position(bucket, key) ==
  IF \E i \in 1..Len(bucket) : bucket[i][1] = key
  THEN CHOOSE i \in 1..Len(bucket) :
         /\ bucket[i][1] = key
         /\ \A j \in 1..(i - 1) : bucket[j][1] # key
  ELSE 0

\* removal that pops the last element whatever idx is
swap_removePop(bucket, idx) == SubSeq(bucket, 1, Len(bucket) - 1)

\* Vec::swap_remove(idx): the last element takes the place of the removed one
swap_remove(bucket, idx) ==
  IF idx = Len(bucket)
  THEN SubSeq(bucket, 1, Len(bucket) - 1)
  ELSE [i \in 1..(Len(bucket) - 1) |-> IF i = idx THEN bucket[Len(bucket)] ELSE bucket[i]]

\* self.buckets.iter_mut().flat_map(|bucket| bucket.drain(..)): all entries, bucket by bucket
RECURSIVE Drain(_)
Drain(bs) == IF bs = <<>> THEN <<>> ELSE Head(bs) \o Drain(Tail(bs))

\* growth by a constant step instead of doubling
NewSizePlus(len) == IF len = 0 THEN 1 ELSE len + 2

\* the new size chosen by rehash
NewSize(len) == IF len = 0 THEN 1 ELSE len * 2

\* rehash that leaves every entry under the index of the old size
rehashStale(bs) ==
  LET size == NewSize(Len(bs))
      old  == IF Len(bs) = 0 THEN 1 ELSE Len(bs)
      all  == Drain(bs)
  IN [i \in 1..size |-> SelectSeq(all, LAMBDA e : BucketOf(e[1], old) = i)]

\* rehash that drains the first old bucket only
rehashFirstBucket(bs) ==
  LET size == NewSize(Len(bs))
      all  == IF bs = <<>> THEN <<>> ELSE Head(bs)
  IN [i \in 1..size |-> SelectSeq(all, LAMBDA e : BucketOf(e[1], size) = i)]

\* fn rehash: the bucket vector after redistributing every entry under the new size
rehash(bs) ==
  LET size == NewSize(Len(bs))
      all  == Drain(bs)
  IN [i \in 1..size |-> SelectSeq(all, LAMBDA e : BucketOf(e[1], size) = i)]

\* rehash condition without the load test
NeedsRehashOnlyEmpty == empty

\* rehash condition that already fires at three quarters
NeedsRehashAtThreshold == empty \/ items >= ((3 * Capacity) \div 4)

\* the condition under which insert calls rehash
NeedsRehash == empty \/ items > ((3 * Capacity) \div 4)

\* fn get: the value found for key, or None
GetIn(bs, n, key) ==
  IF n = 0 THEN None
  ELSE LET bucket == bs[BucketOf(key, Len(bs))]
           idx == position(bucket, key)
       IN IF idx = 0 THEN None ELSE bucket[idx][2]

GetValue(key) == GetIn(buckets, items, key)

\* key is present: get would return a value for it
Contains(key) == GetValue(key) # None

\* ---- Init: HashMap::new() ----
Init ==
  /\ hash \in [Keys -> 0..(HashRange - 1)]
  /\ buckets = <<>>
  /\ items = 0
  /\ panicked = FALSE
  /\ lastOp = [op |-> "new", key |-> 0, found |-> FALSE, ret |-> None]
  /\ assigned = [k \in Keys |-> None]
  /\ everInserted = {}
  /\ nInsertNew = 0
  /\ nRemoveOk = 0

\* ---- actions ----

\* item counter bumped on every insert, replacement or not
InsertItemsAlways(found) == items + 1

\* the item counter after an insert
InsertItems(found) == IF found THEN items ELSE items + 1

\* fn insert(&mut self, key, value) -> Option<V>
insert(key, value) ==
  /\ ~panicked
  /\ LET bs     == IF NeedsRehash THEN rehash(buckets) ELSE buckets
         b      == BucketOf(key, Len(bs))
         idx    == position(bs[b], key)
         found  == idx # 0
     IN /\ buckets' = IF found
                      THEN [bs EXCEPT ![b][idx][2] = value]
                      ELSE [bs EXCEPT ![b] = Append(@, <<key, value>>)]
        /\ items' = InsertItems(found)
        /\ nInsertNew' = IF Contains(key) THEN nInsertNew ELSE nInsertNew + 1
        /\ lastOp' = [op |-> "insert", key |-> key, found |-> found, ret |-> None]
  /\ assigned' = [assigned EXCEPT ![key] = value]
  /\ everInserted' = everInserted \cup {key}
  /\ UNCHANGED <<hash, panicked, nRemoveOk>>

\* a call of insert, as long as the bound on inserts of absent keys allows it
Insert(key, value) ==
  /\ (~Contains(key)) => nInsertNew < MaxInserts
  /\ insert(key, value)

\* fn remove(&mut self, key) -> Option<V>, on a table with no buckets:
\* get_bucket_idx divides by zero and the call panics before touching the table
RemovePanic(key) ==
  /\ ~panicked
  /\ get_bucket_idx_panics
  /\ panicked' = TRUE
  /\ lastOp' = [op |-> "remove", key |-> key, found |-> FALSE, ret |-> Unwound]
  /\ UNCHANGED <<hash, buckets, items, assigned, everInserted, nInsertNew, nRemoveOk>>

\* remove that decrements the item counter before it looks for the key
RemoveDecrementFirst(key) ==
  /\ ~panicked
  /\ ~get_bucket_idx_panics
  /\ items > 0
  /\ LET b   == get_bucket_idx(key)
         idx == position(buckets[b], key)
     IN /\ items' = items - 1
        /\ IF idx = 0
           THEN UNCHANGED buckets
           ELSE buckets' = [buckets EXCEPT ![b] = swap_remove(@, idx)]
        /\ lastOp' = [op |-> "remove", key |-> key, found |-> (idx # 0), ret |-> None]
  /\ assigned' = [assigned EXCEPT ![key] = None]
  /\ nRemoveOk' = IF Contains(key) THEN nRemoveOk + 1 ELSE nRemoveOk
  /\ UNCHANGED <<hash, panicked, everInserted, nInsertNew>>

\* fn remove(&mut self, key) -> Option<V>, on a table with buckets
Remove(key) ==
  /\ ~panicked
  /\ ~get_bucket_idx_panics
  /\ LET b   == get_bucket_idx(key)
         idx == position(buckets[b], key)
     IN /\ IF idx = 0
           THEN UNCHANGED <<buckets, items>>
           ELSE /\ items' = items - 1
                /\ buckets' = [buckets EXCEPT ![b] = swap_remove(@, idx)]
        /\ lastOp' = [op |-> "remove", key |-> key, found |-> (idx # 0), ret |-> None]
  /\ assigned' = [assigned EXCEPT ![key] = None]
  /\ nRemoveOk' = IF Contains(key) THEN nRemoveOk + 1 ELSE nRemoveOk
  /\ UNCHANGED <<hash, panicked, everInserted, nInsertNew>>

\* fn get(&self, key) -> Option<&V>
Get(key) ==
  /\ ~panicked
  /\ lastOp' = [op |-> "get", key |-> key, found |-> (GetValue(key) # None),
                 ret |-> GetValue(key)]
  /\ UNCHANGED <<hash, buckets, items, panicked, assigned, everInserted,
                 nInsertNew, nRemoveOk>>

Next ==
  \/ \E key \in Keys, value \in Vals : Insert(key, value)
  \/ \E key \in Keys : RemovePanic(key)
  \/ \E key \in Keys : Remove(key)
  \/ \E key \in Keys : Get(key)

Spec == Init /\ [][Next]_vars

\* ---- the scenario of tests::insert (lines 105-167), for every hasher ----

\* hash values tried for the scenario keys
ScenarioHashRange == 4

\* the keys 1..5 of the test and one key that is never inserted (100 in the test)
ScenarioKeys == 1..6

\* HashMap::new(), with a hasher over the scenario keys
ScenarioInit ==
  /\ hash \in [ScenarioKeys -> 0..(ScenarioHashRange - 1)]
  /\ buckets = <<>>
  /\ items = 0
  /\ panicked = FALSE
  /\ lastOp = [op |-> "new", key |-> 0, found |-> FALSE, ret |-> None]
  /\ assigned = [k \in ScenarioKeys |-> None]
  /\ everInserted = {}
  /\ nInsertNew = 0
  /\ nRemoveOk = 0

\* number of mutating calls of the scenario made so far, read off the history
ScenarioPc ==
  IF everInserted = {} THEN 0
  ELSE IF everInserted = {1} THEN (IF assigned[1] = 42 THEN 1 ELSE 2)
  ELSE IF Cardinality(everInserted) < 5 THEN Cardinality(everInserted) + 1
  ELSE IF assigned[3] # None THEN 6
  ELSE 7

\* the next mutating call of the test
ScenarioStep ==
  \/ ScenarioPc = 0 /\ insert(1, 42)
  \/ ScenarioPc = 1 /\ insert(1, 10)
  \/ \E k \in 2..5 : ScenarioPc = k /\ insert(k, 10 * k)
  \/ ScenarioPc = 6 /\ Remove(3)

\* the test's m.get(..) calls between the mutating calls
ScenarioGet == \E key \in ScenarioKeys : Get(key)

ScenarioNext == ScenarioStep \/ ScenarioGet

ScenarioSpec == ScenarioInit /\ [][ScenarioNext]_vars

\* ---- insert(k, v); remove(k) repeated on a new table ----

\* insert into the empty table
CycleInsert == items = 0 /\ \E key \in Keys, value \in Vals : Insert(key, value)

\* remove of the key just inserted
CycleRemove == items = 1 /\ \E key \in Keys : Contains(key) /\ Remove(key)

CycleNext == CycleInsert \/ CycleRemove

CycleSpec == Init /\ [][CycleNext]_vars

\* ---- vocabulary of the properties ----

\* get's result in the state after the step
GetValueAfter(key) == GetIn(buckets', items', key)

IsPowerOfTwo(n) == \E e \in 0..n : 2 ^ e = n

\* ---- properties ----

\* C1: a key whose last insert has not been followed by another insert or a
\* remove of the same key is returned by get with exactly the inserted value,
\* whatever happened to other keys in between (grows included).
C1_GetAfterInsert ==
  /\ \A k \in Keys : assigned[k] # None => GetValue(k) = assigned[k]
  /\ (lastOp.op = "get" /\ assigned[lastOp.key] # None)
        => lastOp.ret = assigned[lastOp.key]

\* a get of a key inserted before two other keys and at least two grows
C1_Witness ==
  /\ lastOp.op = "get"
  /\ assigned[lastOp.key] # None
  /\ lastOp.ret = assigned[lastOp.key]
  /\ Capacity >= 4
  /\ items = 3

\* C2: insert returns the value get would have returned just before the call
\* (the previous value when the key is present, nothing when it is absent).
C2_InsertReturnsOld ==
  [][lastOp'.op = "insert" => lastOp'.ret = GetValue(lastOp'.key)]_vars

\* C3: remove returns the value get would have returned just before the call
\* when the key is present, and nothing when it is absent.
C3_RemoveReturnsOld ==
  [][(lastOp'.op = "remove" /\ ~panicked')
       => lastOp'.ret = GetValue(lastOp'.key)]_vars

\* C4: remove on a table without buckets returns nothing, without a
\* division by zero, and leaves items = 0 and the bucket count 0.
C4_RemoveOnNewTable ==
  (lastOp.op = "remove" /\ Capacity = 0)
     => (~panicked /\ lastOp.ret = None /\ items = 0)

\* C5: an insert of a present key leaves items unchanged, an insert of an
\* absent key adds exactly one, with or without a grow.
C5_InsertCount ==
  [][lastOp'.op = "insert"
       => items' = IF Contains(lastOp'.key) THEN items ELSE items + 1]_vars

\* a replacing insert that doubled the bucket vector: two keys inserted once
\* each can only reach four buckets through a third, replacing, insert
C5_Witness ==
  /\ lastOp.op = "insert"
  /\ items = 2
  /\ nInsertNew = 2
  /\ nRemoveOk = 0
  /\ Capacity = 4

\* C6 as stated: items is the number of distinct keys ever inserted minus the
\* number of removes that found their key.
C6_CountDistinctKeys == items = Cardinality(everInserted) - nRemoveOk

\* C6: items is the number of inserts whose key was absent when called minus
\* the number of removes whose key was present when called.
C6_CountInsertsOfAbsent == items = nInsertNew - nRemoveOk

\* a key inserted again after its removal, next to another key
C6_Witness ==
  /\ nInsertNew = 3
  /\ nRemoveOk = 1
  /\ Cardinality(everInserted) = 2
  /\ items = 2

\* C7: a remove of a present key makes get report its absence, takes exactly
\* one off items, keeps the number of buckets and keeps the value get returns
\* for every other key.
C7_RemovePresent ==
  [][(lastOp'.op = "remove" /\ Contains(lastOp'.key))
       => /\ GetValueAfter(lastOp'.key) = None
          /\ items' = items - 1
          /\ Len(buckets') = Capacity
          /\ \A k \in Keys \ {lastOp'.key} : GetValueAfter(k) = GetValue(k)]_vars

\* key 1 removed from a bucket that held all three keys: the bucket now
\* starts with key 3, moved into the freed slot or already in front of it
C7_Witness ==
  /\ lastOp.op = "remove"
  /\ lastOp.key = 1
  /\ lastOp.found
  /\ nInsertNew = 3
  /\ nRemoveOk = 1
  /\ \E i \in 1..Capacity :
        /\ \A k \in Keys : get_bucket_idx(k) = i
        /\ Len(buckets[i]) = 2
        /\ buckets[i][1][1] = 3
        /\ buckets[i][2][1] = 2

\* C8: a remove of an absent key on a table with at least one bucket changes
\* neither items, nor the number of buckets, nor what get returns for any key.
C8_RemoveAbsent ==
  [][(lastOp'.op = "remove" /\ Capacity >= 1 /\ ~Contains(lastOp'.key))
       => /\ ~panicked'
          /\ items' = items
          /\ Len(buckets') = Capacity
          /\ \A k \in Keys : GetValueAfter(k) = GetValue(k)]_vars

\* an absent key removed from a table whose bucket for that key is not empty
C8_Witness ==
  /\ lastOp.op = "remove"
  /\ ~panicked
  /\ ~lastOp.found
  /\ nRemoveOk = 0
  /\ Len(buckets[get_bucket_idx(lastOp.key)]) >= 1

\* C9: the number of buckets is 0 or a power of two; get and remove keep it,
\* and an insert keeps it, takes it from 0 to 1, or doubles it.
C9_CapacitySteps ==
  /\ [](Capacity = 0 \/ IsPowerOfTwo(Capacity))
  /\ [][\/ Len(buckets') = Capacity
        \/ /\ lastOp'.op = "insert"
           /\ \/ Capacity = 0 /\ Len(buckets') = 1
              \/ Capacity >= 1 /\ Len(buckets') = 2 * Capacity]_vars

\* three doublings after the first allocation
C9_Witness == Capacity = 8 /\ lastOp.op = "insert"

\* C10: an insert grows the table exactly when it is the first insert ever
\* (no buckets yet) or when items exceeds three quarters of the bucket count.
C10_GrowOnlyFirstOrLoaded ==
  [][lastOp'.op = "insert"
       => ((Len(buckets') # Capacity)
             <=> \/ everInserted = {} /\ Capacity = 0
                 \/ 4 * items > 3 * Capacity)]_vars

\* the (key, value) pairs held by a bucket vector
EntrySet(bs) == {Drain(bs)[i] : i \in 1..Len(Drain(bs))}

\* C11: a grow loses nothing: rehash of the table of any reachable state
\* holds the same set of entries in as many slots, get returns the assigned
\* value of every live key from the rehashed table, and an insert step that
\* grows keeps the entries of every key other than the inserted one.
C11_GrowKeepsEntries ==
  /\ [](/\ EntrySet(rehash(buckets)) = EntrySet(buckets)
        /\ Len(Drain(rehash(buckets))) = Len(Drain(buckets))
        /\ \A k \in Keys : assigned[k] # None
              => GetIn(rehash(buckets), items, k) = assigned[k])
  /\ [][(lastOp'.op = "insert" /\ Len(buckets') # Capacity)
         => /\ {e \in EntrySet(buckets') : e[1] # lastOp'.key}
                 = {e \in EntrySet(buckets) : e[1] # lastOp'.key}
            /\ \A k \in Keys \ {lastOp'.key} : GetValueAfter(k) = GetValue(k)]_vars

\* three keys inserted once each, nothing removed, four buckets: two grows
\* moved entries, and all three keys are still returned
C11_Witness ==
  /\ nInsertNew = 3
  /\ nRemoveOk = 0
  /\ Capacity = 4
  /\ Cardinality(EntrySet(buckets)) = 3
  /\ \A k \in Keys : GetValue(k) = assigned[k] /\ assigned[k] # None
  /\ \E i \in 3..4 : Len(buckets[i]) >= 1

\* <<items, buckets.len()>> asserted by the test after each mutating call
ScenarioSizes ==
  <<  <<1, 1>>, <<1, 2>>, <<2, 2>>, <<3, 4>>, <<4, 4>>, <<5, 8>>, <<4, 8>>  >>

\* the value the test expects get to return for key k after pc mutating calls
ScenarioExpected(pc, k) ==
  IF k = 1 THEN (IF pc = 0 THEN None ELSE IF pc = 1 THEN 42 ELSE 10)
  ELSE IF k = 3 THEN (IF pc \in 4..6 THEN 30 ELSE None)
  ELSE IF k \in {2, 4, 5} THEN (IF pc >= k + 1 THEN 10 * k ELSE None)
  ELSE None

\* C12: whatever the hash values of the keys, the calls insert(1,42),
\* insert(1,10), insert(2,20), insert(3,30), insert(4,40), insert(5,50),
\* remove(3) on a new table give items/buckets 1/1, 1/2, 2/2, 3/4, 4/4, 5/8,
\* 4/8, and get returns the last assigned value of every live key and None
\* for the removed key and for a key never inserted.
C12_ScenarioForEveryHash ==
  /\ ~panicked
  /\ ScenarioPc = 0 => (items = 0 /\ Capacity = 0)
  /\ ScenarioPc \in 1..7 => <<items, Capacity>> = ScenarioSizes[ScenarioPc]
  /\ \A k \in ScenarioKeys : GetValue(k) = ScenarioExpected(ScenarioPc, k)
  /\ lastOp.op = "get" => lastOp.ret = ScenarioExpected(ScenarioPc, lastOp.key)

\* the end of the scenario with all five keys colliding in one bucket:
\* get of the removed key returns None
C12_Witness ==
  /\ ScenarioPc = 7
  /\ \A k \in 1..5 : hash[k] = hash[1]
  /\ lastOp.op = "get"
  /\ lastOp.key = 3
  /\ lastOp.ret = None
  /\ items = 4
  /\ Capacity = 8
  /\ \A k \in {1, 2, 4, 5} : Contains(k)

\* C13: items equals the number of entries summed over all buckets.
C13_ItemsIsEntryCount == items = Len(Drain(buckets))

\* entries spread over several buckets after a removal
C13_Witness ==
  /\ items = 2
  /\ nRemoveOk >= 1
  /\ Capacity >= 4
  /\ \E i, j \in 1..Capacity : i # j /\ Len(buckets[i]) = 1 /\ Len(buckets[j]) = 1

\* C14: no key occurs in more than one entry of the table.
C14_NoDuplicateKey ==
  \A i, j \in 1..Len(Drain(buckets)) :
     i # j => Drain(buckets)[i][1] # Drain(buckets)[j][1]

\* two keys inserted once each and sharing a bucket of four: the four buckets
\* can only come from an insert of an existing key that doubled the buckets
C14_Witness ==
  /\ lastOp.op = "insert"
  /\ lastOp.found
  /\ nInsertNew = 2
  /\ nRemoveOk = 0
  /\ Capacity = 4
  /\ \E i \in 1..Capacity : Len(buckets[i]) = 2

\* C15: with at least one bucket, every entry sits in the bucket whose index
\* is its key's hash modulo the current number of buckets.
C15_EntryInItsBucket ==
  \A i \in 1..Capacity : \A j \in 1..Len(buckets[i]) :
     get_bucket_idx(buckets[i][j][1]) = i

\* two keys inserted while there were at most two buckets; a replacing
\* insert doubled them to four and an entry now sits in the third bucket
C15_Witness ==
  /\ Capacity = 4
  /\ items = 2
  /\ nInsertNew = 2
  /\ nRemoveOk = 0
  /\ Len(buckets[3]) = 1

GetUnderCapacityGuard(key) ==
  IF Capacity = 0 THEN None
  ELSE LET bucket == buckets[get_bucket_idx(key)]
           idx == position(bucket, key)
       IN IF idx = 0 THEN None ELSE bucket[idx][2]

\* C17: no buckets implies no items, so get's guard on items = 0 covers the
\* table without buckets; get under that guard returns what it would return
\* under a guard on the number of buckets; get changes neither items nor
\* any bucket.
C17_GetGuard ==
  /\ [](/\ Capacity = 0 => items = 0
        /\ \A k \in Keys : GetValue(k) = GetUnderCapacityGuard(k))
  /\ [][lastOp'.op = "get"
         => /\ buckets' = buckets
            /\ items' = items
            /\ lastOp'.ret = GetUnderCapacityGuard(lastOp'.key)]_vars

\* a get on a table emptied by removes: items is 0, the buckets exist
C17_Witness ==
  /\ lastOp.op = "get"
  /\ lastOp.ret = None
  /\ items = 0
  /\ Capacity >= 2
  /\ nRemoveOk >= 1

\* C18: with at least one bucket, items never exceeds
\* floor(3 * buckets / 4) + 1.
C18_LoadBound == Capacity >= 1 => items <= ((3 * Capacity) \div 4) + 1

\* the bound is met: two items in two buckets
C18_Witness == Capacity = 2 /\ items = 2 /\ lastOp.op = "insert"

====
